---- MODULE Spec2Model ----
(***************************************************************************)
(* Model of the two cedar-validate command line tools.                     *)
(*                                                                         *)
(*   validator  tools/cedar-validate/src/main.rs                           *)
(*   converter  tools/cedar-validate/src/bin/cedar_parse.rs                *)
(*                                                                         *)
(* One behaviour is one run of one tool.  The inputs of the run (the root  *)
(* argument, what the directory enumeration yields, the file contents,     *)
(* standard input, the verdicts of the policy engine's serializer and of   *)
(* the JSON encoder) are fixed in the initial state.  Text is a sequence   *)
(* of one-character strings.                                               *)
(*                                                                         *)
(* The policy engine is an external crate.  Its parsers are modelled by a  *)
(* small token grammar: "P" stands for a complete policy such as           *)
(* permit(principal, action, resource); and "p" for the same text without  *)
(* its terminator ";", " " and "\n" are white space.  A policy is "P" or   *)
(* "p" followed by ";", a policy set is any number of policies.            *)
(*                                                                         *)
(* Failures of writing to the standard streams are outside the model.      *)
(***************************************************************************)
EXTENDS Integers, Sequences, FiniteSets

\* Bounds of the model.
MaxFiles == 2
MaxContentLen == 1
MaxInputLen == 3

\* Exit statuses.
ExitOk == 0
ExitParseFailed == 1
ExitRootMissing == 2
ExitGlobError == 3
ExitNoPolicies == 4
ExitStdinRead == 2
ExitEmptyInput == 3
ExitToJson == 4
ExitEncode == 5
PanicStatus == 101

Chars == {"P", "p", ";", " ", "\n"}

Texts(n) == UNION {[1..k -> Chars] : k \in 0..n}

\* File names.  Every directory entry has a name of its own: the entry at
\* position i of the enumeration is schema.cedar or OtherNames[i].
SchemaName == "schema.cedar"

OtherNames == <<"myschema.cedar", "a.cedar", "b.cedar", "c.cedar">>

\* One item of the directory enumeration: a resolution error, or a path
\* together with what reading that path gives (ok = FALSE: the read fails).
GlobErrEntry == [kind |-> "err", name |-> "", ok |-> FALSE, content |-> <<>>]

\* What an item is, its name left aside.
Shapes ==
    {[kind |-> "err", schema |-> FALSE, ok |-> FALSE, content |-> <<>>]}
    \cup {[kind |-> "file", schema |-> b, ok |-> TRUE, content |-> c] :
            b \in BOOLEAN, c \in Texts(MaxContentLen)}
    \cup {[kind |-> "file", schema |-> b, ok |-> FALSE, content |-> <<>>] :
            b \in BOOLEAN}

EntryAt(sh, i) ==
    IF sh.kind = "err" THEN GlobErrEntry
    ELSE [kind |-> "file",
          name |-> IF sh.schema THEN SchemaName ELSE OtherNames[i],
          ok |-> sh.ok,
          content |-> sh.content]

\* Enumerations: a directory holds a file name at most once.
IsEnumeration(fs) ==
    \E k \in 0..MaxFiles :
        \E sh \in [1..k -> Shapes] :
            /\ \A i, j \in 1..k : (sh[i].schema /\ sh[j].schema) => i = j
            /\ fs = [i \in 1..k |-> EntryAt(sh[i], i)]

\* The root argument: is it an existing directory, is the argument valid
\* Unicode, is root/*.cedar accepted as a glob pattern.  The pattern is
\* taken to match the root's own entries (a root path without wildcards).
Roots ==
    {r \in [isDir : BOOLEAN, utf8 : BOOLEAN, patternOk : BOOLEAN] :
        ~r.utf8 => r.patternOk}

StdinReadError == [ok |-> FALSE, text |-> <<>>]

StdinResults ==
    {StdinReadError} \cup {[ok |-> TRUE, text |-> t] : t \in Texts(MaxInputLen)}

VARIABLES
    tool,        \* which binary runs: "validator" or "converter"
    exit,        \* <<>> while running, <<status>> once the process has ended
    diag,        \* number of diagnostics written to the error stream
    stdout,      \* text written to standard output
    engineCalls, \* number of calls of an engine parser
    root,        \* validator: the root argument
    files,       \* validator: the directory's *.cedar enumeration
    vpc,         \* validator: position in main
    idx,         \* validator: number of loop iterations completed
    combined,    \* validator: the aggregated document
    readLog,     \* validator: names given to fs::read_to_string, in order
    appended,    \* validator: enumeration positions whose content was pushed
    panicSite,   \* validator: "none", or where main panicked
    stdin,       \* converter: result of reading standard input
    toJsonOk,    \* converter: verdict of policy.to_json()
    encodeOk,    \* converter: verdict of serde_json::to_string
    cpc,         \* converter: position in main
    stages,      \* converter: stages entered, in order
    policySrc    \* converter: the trimmed input

vars == <<tool, exit, diag, stdout, engineCalls, root, files, vpc, idx,
          combined, readLog, appended, panicSite, stdin, toJsonOk, encodeOk,
          cpc, stages, policySrc>>

inputVars == <<tool, root, files, stdin, toJsonOk, encodeOk>>
vLocals == <<vpc, idx, combined, readLog, appended, panicSite>>
cLocals == <<cpc, stages, policySrc>>

----------------------------------------------------------------------------
\* Text helpers.

IsWhitespace(c) == c \in {" ", "\n"}

RECURSIVE TrimStart(_)
TrimStart(s) ==
    IF s = <<>> THEN <<>>
    ELSE IF IsWhitespace(Head(s)) THEN TrimStart(Tail(s))
    ELSE s

RECURSIVE TrimEnd(_)
TrimEnd(s) ==
    IF s = <<>> THEN <<>>
    ELSE IF IsWhitespace(s[Len(s)]) THEN TrimEnd(SubSeq(s, 1, Len(s) - 1))
    ELSE s

\* str::trim
Trim(s) == TrimEnd(TrimStart(s))

\* content.ends_with('\n')
EndsWithNewline(s) == s # <<>> /\ s[Len(s)] = "\n"

\* combined.trim().is_empty()
IsBlank(s) == Trim(s) = <<>>

\* The engine's lexer: white space separates tokens and is dropped.
Tokens(s) == SelectSeq(s, LAMBDA c : ~IsWhitespace(c))

\* combined.parse::<PolicySet>() succeeds
RECURSIVE ParsesAsPolicies(_)
ParsesAsPolicies(t) ==
    \/ t = <<>>
    \/ /\ Len(t) >= 1
       /\ t[1] = "P"
       /\ ParsesAsPolicies(Tail(t))
    \/ /\ Len(t) >= 2
       /\ t[1] = "p"
       /\ t[2] = ";"
       /\ ParsesAsPolicies(Tail(Tail(t)))

PolicySetAccepts(s) == ParsesAsPolicies(Tokens(s))

\* Policy::parse(None, policy_src) succeeds
PolicyAccepts(s) == Tokens(s) \in {<<"P">>, <<"p", ";">>}

\* serde_json::to_string(&json): one line of text without a line terminator
EncodedJson == <<"{", "}">>

\* Variant: the comparison names the schema file by another name.
IsSchemaFileWrongName(e) == e.name = "schema.cedarschema"

\* path.file_name().and_then(|name| name.to_str()) == Some("schema.cedar")
IsSchemaFile(e) == e.name = SchemaName

\* Variant: no line terminator is ever inserted.
LineSeparatorNone(content) == <<>>

\* what is pushed after a file's content
LineSeparator(content) == IF EndsWithNewline(content) THEN <<>> ELSE <<"\n">>

----------------------------------------------------------------------------
Init ==
    /\ tool \in {"validator", "converter"}
    /\ IF tool = "validator"
       THEN /\ root \in Roots
            /\ IF root.isDir THEN IsEnumeration(files) ELSE files = <<>>
            /\ stdin = StdinReadError
            /\ toJsonOk = TRUE
            /\ encodeOk = TRUE
            /\ vpc = "args"
            /\ cpc = "off"
       ELSE /\ root = [isDir |-> FALSE, utf8 |-> TRUE, patternOk |-> TRUE]
            /\ files = <<>>
            /\ stdin \in StdinResults
            /\ toJsonOk \in BOOLEAN
            /\ encodeOk \in BOOLEAN
            /\ vpc = "off"
            /\ cpc = "read"
    /\ exit = <<>>
    /\ diag = 0
    /\ stdout = <<>>
    /\ engineCalls = 0
    /\ idx = 0
    /\ combined = <<>>
    /\ readLog = <<>>
    /\ appended = <<>>
    /\ panicSite = "none"
    /\ stages = <<>>
    /\ policySrc = <<>>

----------------------------------------------------------------------------
\* Validator.

\* eprintln!(..); std::process::exit(code)
VFail(code) ==
    /\ diag' = diag + 1
    /\ exit' = <<code>>
    /\ vpc' = "done"

\* env::args().nth(1): the iterator panics on an argument that is not Unicode
VArgsPanic ==
    /\ vpc = "args"
    /\ ~root.utf8
    /\ VFail(PanicStatus)
    /\ panicSite' = "args"
    /\ UNCHANGED <<inputVars, cLocals, stdout, engineCalls, idx, combined,
                   readLog, appended>>

VArgsOk ==
    /\ vpc = "args"
    /\ root.utf8
    /\ vpc' = "checkroot"
    /\ UNCHANGED <<inputVars, cLocals, exit, diag, stdout, engineCalls, idx,
                   combined, readLog, appended, panicSite>>

\* if !policy_root.is_dir() { eprintln!; exit(2) }
VRootMissing ==
    /\ vpc = "checkroot"
    /\ ~root.isDir
    /\ VFail(ExitRootMissing)
    /\ UNCHANGED <<inputVars, cLocals, stdout, engineCalls, idx, combined,
                   readLog, appended, panicSite>>

VRootOk ==
    /\ vpc = "checkroot"
    /\ root.isDir
    /\ vpc' = "pattern"
    /\ UNCHANGED <<inputVars, cLocals, exit, diag, stdout, engineCalls, idx,
                   combined, readLog, appended, panicSite>>

\* glob(pattern_str).expect(..): a rejected pattern panics.  pattern.to_str()
\* cannot fail, the path is built from a String.
VPatternPanic ==
    /\ vpc = "pattern"
    /\ ~root.patternOk
    /\ VFail(PanicStatus)
    /\ panicSite' = "pattern"
    /\ UNCHANGED <<inputVars, cLocals, stdout, engineCalls, idx, combined,
                   readLog, appended>>

VPatternOk ==
    /\ vpc = "pattern"
    /\ root.patternOk
    /\ vpc' = "loop"
    /\ UNCHANGED <<inputVars, cLocals, exit, diag, stdout, engineCalls, idx,
                   combined, readLog, appended, panicSite>>

\* Variant: an entry that fails to resolve is skipped.
VGlobErrorSkipped ==
    /\ vpc = "loop"
    /\ idx < Len(files)
    /\ files[idx + 1].kind = "err"
    /\ idx' = idx + 1
    /\ UNCHANGED <<inputVars, cLocals, exit, diag, stdout, engineCalls, vpc,
                   combined, readLog, appended, panicSite>>

\* loop body, entry is Err(err): eprintln!; exit(3)
VGlobError ==
    /\ vpc = "loop"
    /\ idx < Len(files)
    /\ files[idx + 1].kind = "err"
    /\ VFail(ExitGlobError)
    /\ UNCHANGED <<inputVars, cLocals, stdout, engineCalls, idx, combined,
                   readLog, appended, panicSite>>

\* Variant: the file is read before its name is looked at.
VSkipSchemaReadsFirst ==
    /\ vpc = "loop"
    /\ idx < Len(files)
    /\ files[idx + 1].kind = "file"
    /\ IsSchemaFile(files[idx + 1])
    /\ files[idx + 1].ok
    /\ readLog' = Append(readLog, files[idx + 1].name)
    /\ idx' = idx + 1
    /\ UNCHANGED <<inputVars, cLocals, exit, diag, stdout, engineCalls, vpc,
                   combined, appended, panicSite>>

\* loop body, the file is schema.cedar: continue
VSkipSchema ==
    /\ vpc = "loop"
    /\ idx < Len(files)
    /\ files[idx + 1].kind = "file"
    /\ IsSchemaFile(files[idx + 1])
    /\ idx' = idx + 1
    /\ UNCHANGED <<inputVars, cLocals, exit, diag, stdout, engineCalls, vpc,
                   combined, readLog, appended, panicSite>>

\* Variant: a failed read is reported and the loop goes on.
VReadPanicContinues ==
    /\ vpc = "loop"
    /\ idx < Len(files)
    /\ files[idx + 1].kind = "file"
    /\ ~IsSchemaFile(files[idx + 1])
    /\ ~files[idx + 1].ok
    /\ readLog' = Append(readLog, files[idx + 1].name)
    /\ diag' = diag + 1
    /\ idx' = idx + 1
    /\ UNCHANGED <<inputVars, cLocals, exit, stdout, engineCalls, vpc,
                   combined, appended, panicSite>>

\* loop body, fs::read_to_string fails: panic
VReadPanic ==
    /\ vpc = "loop"
    /\ idx < Len(files)
    /\ files[idx + 1].kind = "file"
    /\ ~IsSchemaFile(files[idx + 1])
    /\ ~files[idx + 1].ok
    /\ readLog' = Append(readLog, files[idx + 1].name)
    /\ VFail(PanicStatus)
    /\ panicSite' = "read"
    /\ UNCHANGED <<inputVars, cLocals, stdout, engineCalls, idx, combined,
                   appended>>

\* Variant: the content replaces the buffer instead of being pushed.
VAppendOverwrites ==
    /\ vpc = "loop"
    /\ idx < Len(files)
    /\ files[idx + 1].kind = "file"
    /\ ~IsSchemaFile(files[idx + 1])
    /\ files[idx + 1].ok
    /\ readLog' = Append(readLog, files[idx + 1].name)
    /\ combined' = files[idx + 1].content
                     \o LineSeparator(files[idx + 1].content)
    /\ appended' = Append(appended, idx + 1)
    /\ idx' = idx + 1
    /\ UNCHANGED <<inputVars, cLocals, exit, diag, stdout, engineCalls, vpc,
                   panicSite>>

\* loop body, the file is read: push its content, then '\n' if it lacks one
VAppend ==
    /\ vpc = "loop"
    /\ idx < Len(files)
    /\ files[idx + 1].kind = "file"
    /\ ~IsSchemaFile(files[idx + 1])
    /\ files[idx + 1].ok
    /\ readLog' = Append(readLog, files[idx + 1].name)
    /\ combined' = combined \o files[idx + 1].content
                            \o LineSeparator(files[idx + 1].content)
    /\ appended' = Append(appended, idx + 1)
    /\ idx' = idx + 1
    /\ UNCHANGED <<inputVars, cLocals, exit, diag, stdout, engineCalls, vpc,
                   panicSite>>

\* the enumeration is exhausted
VLoopEnd ==
    /\ vpc = "loop"
    /\ idx = Len(files)
    /\ vpc' = "aggregated"
    /\ UNCHANGED <<inputVars, cLocals, exit, diag, stdout, engineCalls, idx,
                   combined, readLog, appended, panicSite>>

\* Variant: the empty document is reported with another status.
VNoPoliciesWrongCode ==
    /\ vpc = "aggregated"
    /\ IsBlank(combined)
    /\ VFail(ExitEncode)
    /\ UNCHANGED <<inputVars, cLocals, stdout, engineCalls, idx, combined,
                   readLog, appended, panicSite>>

\* if combined.trim().is_empty() { eprintln!; exit(4) }
VNoPolicies ==
    /\ vpc = "aggregated"
    /\ IsBlank(combined)
    /\ VFail(ExitNoPolicies)
    /\ UNCHANGED <<inputVars, cLocals, stdout, engineCalls, idx, combined,
                   readLog, appended, panicSite>>

\* Variant: the engine's error is dropped.
VParseFailIgnored ==
    /\ vpc = "aggregated"
    /\ ~IsBlank(combined)
    /\ engineCalls' = engineCalls + 1
    /\ ~PolicySetAccepts(combined)
    /\ exit' = <<ExitOk>>
    /\ vpc' = "done"
    /\ UNCHANGED <<inputVars, cLocals, diag, stdout, idx, combined, readLog,
                   appended, panicSite>>

\* if let Err(err) = combined.parse::<PolicySet>() { eprintln!; exit(1) }
VParseFail ==
    /\ vpc = "aggregated"
    /\ ~IsBlank(combined)
    /\ engineCalls' = engineCalls + 1
    /\ ~PolicySetAccepts(combined)
    /\ VFail(ExitParseFailed)
    /\ UNCHANGED <<inputVars, cLocals, stdout, idx, combined, readLog,
                   appended, panicSite>>

\* the policy set parses: main returns
VParseOk ==
    /\ vpc = "aggregated"
    /\ ~IsBlank(combined)
    /\ engineCalls' = engineCalls + 1
    /\ PolicySetAccepts(combined)
    /\ exit' = <<ExitOk>>
    /\ vpc' = "done"
    /\ UNCHANGED <<inputVars, cLocals, diag, stdout, idx, combined, readLog,
                   appended, panicSite>>

VNext ==
    \/ VArgsPanic
    \/ VArgsOk
    \/ VRootMissing
    \/ VRootOk
    \/ VPatternPanic
    \/ VPatternOk
    \/ VGlobError
    \/ VSkipSchema
    \/ VReadPanic
    \/ VAppend
    \/ VLoopEnd
    \/ VNoPolicies
    \/ VParseFail
    \/ VParseOk

----------------------------------------------------------------------------
\* Converter.

\* eprintln!(..); std::process::exit(code)
CFail(code) ==
    /\ diag' = diag + 1
    /\ exit' = <<code>>
    /\ cpc' = "done"

\* Read: io::stdin().read_to_string(&mut input).is_err()
CReadFail ==
    /\ cpc = "read"
    /\ ~stdin.ok
    /\ stages' = Append(stages, "Read")
    /\ CFail(ExitStdinRead)
    /\ UNCHANGED <<inputVars, vLocals, stdout, engineCalls, policySrc>>

\* Variant: the emptiness test is missing.
CEmptyInputParsed ==
    /\ cpc = "read"
    /\ stdin.ok
    /\ stages' = Append(stages, "Read")
    /\ policySrc' = Trim(stdin.text)
    /\ policySrc' = <<>>
    /\ cpc' = "parse"
    /\ UNCHANGED <<inputVars, vLocals, exit, diag, stdout, engineCalls>>

\* Read: input.trim() is empty
CEmptyInput ==
    /\ cpc = "read"
    /\ stdin.ok
    /\ stages' = Append(stages, "Read")
    /\ policySrc' = Trim(stdin.text)
    /\ policySrc' = <<>>
    /\ CFail(ExitEmptyInput)
    /\ UNCHANGED <<inputVars, vLocals, stdout, engineCalls>>

CReadOk ==
    /\ cpc = "read"
    /\ stdin.ok
    /\ stages' = Append(stages, "Read")
    /\ policySrc' = Trim(stdin.text)
    /\ policySrc' # <<>>
    /\ cpc' = "parse"
    /\ UNCHANGED <<inputVars, vLocals, exit, diag, stdout, engineCalls>>

\* Parse: Policy::parse(None, policy_src) is Err
CParseFail ==
    /\ cpc = "parse"
    /\ stages' = Append(stages, "Parse")
    /\ engineCalls' = engineCalls + 1
    /\ ~PolicyAccepts(policySrc)
    /\ CFail(ExitParseFailed)
    /\ UNCHANGED <<inputVars, vLocals, stdout, policySrc>>

CParseOk ==
    /\ cpc = "parse"
    /\ stages' = Append(stages, "Parse")
    /\ engineCalls' = engineCalls + 1
    /\ PolicyAccepts(policySrc)
    /\ cpc' = "serialize"
    /\ UNCHANGED <<inputVars, vLocals, exit, diag, stdout, policySrc>>

\* Serialize: policy.to_json() is Err
CSerializeFail ==
    /\ cpc = "serialize"
    /\ stages' = Append(stages, "Serialize")
    /\ ~toJsonOk
    /\ CFail(ExitToJson)
    /\ UNCHANGED <<inputVars, vLocals, stdout, engineCalls, policySrc>>

CSerializeOk ==
    /\ cpc = "serialize"
    /\ stages' = Append(stages, "Serialize")
    /\ toJsonOk
    /\ cpc' = "emit"
    /\ UNCHANGED <<inputVars, vLocals, exit, diag, stdout, engineCalls,
                   policySrc>>

\* Variant: the encoder streams to standard output and fails half way.
CEmitFailPartial ==
    /\ cpc = "emit"
    /\ stages' = Append(stages, "Emit")
    /\ ~encodeOk
    /\ stdout' = stdout \o <<"{">>
    /\ CFail(ExitEncode)
    /\ UNCHANGED <<inputVars, vLocals, engineCalls, policySrc>>

\* Emit: serde_json::to_string(&json) is Err
CEmitFail ==
    /\ cpc = "emit"
    /\ stages' = Append(stages, "Emit")
    /\ ~encodeOk
    /\ CFail(ExitEncode)
    /\ UNCHANGED <<inputVars, vLocals, stdout, engineCalls, policySrc>>

\* Emit: println!("{output}"), then main returns
CEmitOk ==
    /\ cpc = "emit"
    /\ stages' = Append(stages, "Emit")
    /\ encodeOk
    /\ stdout' = stdout \o EncodedJson \o <<"\n">>
    /\ exit' = <<ExitOk>>
    /\ cpc' = "done"
    /\ UNCHANGED <<inputVars, vLocals, diag, engineCalls, policySrc>>

CNext ==
    \/ CReadFail
    \/ CEmptyInput
    \/ CReadOk
    \/ CParseFail
    \/ CParseOk
    \/ CSerializeFail
    \/ CSerializeOk
    \/ CEmitFail
    \/ CEmitOk

----------------------------------------------------------------------------
Next == VNext \/ CNext

Spec == Init /\ [][Next]_vars

----------------------------------------------------------------------------
\* Properties.  The definitions below restate what the documents say from
\* the inputs of the run; they do not use the helpers of the actions above.

Range(s) == {s[i] : i \in 1..Len(s)}

Done == exit # <<>>

Validator == tool = "validator"

Converter == tool = "converter"

AllWhitespace(s) == \A i \in 1..Len(s) : s[i] \in {" ", "\n"}

\* the text between the first and the last character that is not white space
Unpadded(s) ==
    IF AllWhitespace(s) THEN <<>>
    ELSE LET ink == {i \in 1..Len(s) : s[i] \notin {" ", "\n"}}
             lo == CHOOSE i \in ink : \A j \in ink : i <= j
             hi == CHOOSE i \in ink : \A j \in ink : j <= i
         IN  SubSeq(s, lo, hi)

\* a file's content, closed by a line terminator when it lacks one
Terminated(c) ==
    IF Len(c) > 0 /\ c[Len(c)] = "\n" THEN c ELSE c \o <<"\n">>

Excluded(e) == e.kind = "file" /\ e.name = "schema.cedar"

Aggregable(e) == e.kind = "file" /\ e.name # "schema.cedar" /\ e.ok

\* the aggregated document of an enumeration
RECURSIVE ExpectedBuffer(_)
ExpectedBuffer(fs) ==
    IF fs = <<>> THEN <<>>
    ELSE LET n == Len(fs)
             rest == ExpectedBuffer(SubSeq(fs, 1, n - 1))
         IN  IF Aggregable(fs[n]) THEN rest \o Terminated(fs[n].content)
             ELSE rest

\* the closed contents of the enumeration positions ps, in that order
RECURSIVE PiecesOf(_)
PiecesOf(ps) ==
    IF ps = <<>> THEN <<>>
    ELSE Terminated(files[Head(ps)].content) \o PiecesOf(Tail(ps))

GlobFails == \E i \in 1..Len(files) : files[i].kind = "err"

RootUsable == root.utf8 /\ root.isDir /\ root.patternOk

\* C1: the content of the file named schema.cedar is never appended to the
\* aggregated document: at every point of a validator run the buffer is made
\* of the contents of enumerated files with another name only, and
\* schema.cedar is never handed to the file read.
C1_SchemaNeverAggregated ==
    Validator =>
        /\ "schema.cedar" \notin Range(readLog)
        /\ \A i \in Range(appended) :
              /\ i \in 1..Len(files)
              /\ files[i].kind = "file"
              /\ files[i].name # "schema.cedar"
        /\ combined = PiecesOf(appended)

C1_Witness ==
    /\ Validator
    /\ exit = <<0>>
    /\ Len(appended) >= 1
    /\ \E i \in 1..Len(files) :
          /\ Excluded(files[i])
          /\ files[i].ok
          /\ ~AllWhitespace(files[i].content)
          /\ i <= idx

\* the exit status the documents give a validator run that does not panic
C2ExpectedExit ==
    IF ~root.isDir THEN 2
    ELSE IF GlobFails THEN 3
    ELSE IF AllWhitespace(ExpectedBuffer(files)) THEN 4
    ELSE IF ~PolicySetAccepts(ExpectedBuffer(files)) THEN 1
    ELSE 0

C2Outcome ==
    /\ exit = <<C2ExpectedExit>>
    /\ ~root.isDir => (idx = 0 /\ readLog = <<>> /\ engineCalls = 0)

\* C2 as stated: whenever every file read succeeds, a validator run ends
\* with exit 2, 3, 4, 1 or 0 in that precedence.
C2_Original ==
    (Validator /\ Done /\ panicSite # "read") => C2Outcome

\* C2 (amended): whenever every file read succeeds, the root argument is
\* valid Unicode and, for a root that is a directory, root/*.cedar is a
\* valid glob pattern, a validator run ends with exactly one status: 2 iff
\* the root is not an existing directory (nothing is enumerated or read, the
\* engine is not invoked), otherwise 3 iff some glob entry fails to
\* resolve, otherwise 4 iff the aggregated document is empty or white space
\* only, otherwise 1 iff the policy-set parser rejects it, otherwise 0.
C2_ExitPrecedence ==
    (/\ Validator
     /\ Done
     /\ panicSite # "read"
     /\ root.utf8
     /\ root.isDir => root.patternOk)
        => C2Outcome

C2_Witness ==
    /\ Validator
    /\ RootUsable
    /\ exit = <<4>>
    /\ Len(appended) = 2
    /\ combined # <<>>

AllFilesReadable ==
    \A i \in 1..Len(files) : files[i].kind = "file" => files[i].ok

\* C3 as stated: a root holding a *.cedar file with a syntax defect makes
\* the validator exit 1, however many other files are well-formed and
\* wherever the defective file is enumerated.  Stated here for the runs
\* most favourable to it: the root path is usable, every glob entry
\* resolves and every file is readable.
C3_Original ==
    (/\ Validator
     /\ Done
     /\ RootUsable
     /\ ~GlobFails
     /\ AllFilesReadable
     /\ \E i \in 1..Len(files) : ~PolicySetAccepts(files[i].content))
        => exit = <<1>>

\* C3 (amended): atomicity of validation: when the root argument is valid
\* Unicode, the root is a directory, root/*.cedar is a valid pattern, every
\* glob entry resolves and every read succeeds, the validator exits 1
\* whenever the policy-set parser rejects the aggregated document of the
\* enumerated files not named schema.cedar, however many of the files are
\* well-formed on their own and whatever the enumeration order; it exits 0
\* only if the parser accepts the whole aggregated document.
C3_Atomicity ==
    (Validator /\ Done)
        => /\ (/\ RootUsable
               /\ ~GlobFails
               /\ panicSite = "none"
               /\ ~PolicySetAccepts(ExpectedBuffer(files)))
                  => exit = <<1>>
           /\ exit = <<0>>
                  => (/\ PolicySetAccepts(ExpectedBuffer(files))
                      /\ engineCalls = 1
                      /\ idx = Len(files))

C3_Witness ==
    /\ Validator
    /\ exit = <<1>>
    /\ Len(appended) = 2
    /\ \E i, j \in 1..Len(files) :
          /\ i # j
          /\ ~AllWhitespace(files[i].content)
          /\ PolicySetAccepts(files[i].content)
          /\ ~PolicySetAccepts(files[j].content)

AllFilesWellFormed ==
    \A i \in 1..Len(files) :
        files[i].kind = "file"
            => (files[i].ok /\ PolicySetAccepts(files[i].content))

\* C4 as stated: a root that is a directory and holds only well-formed
\* *.cedar files makes the validator exit 0.  Stated here for the runs most
\* favourable to it: the root path is usable and every glob entry resolves.
C4_Original ==
    (Validator /\ Done /\ RootUsable /\ ~GlobFails /\ AllFilesWellFormed)
        => exit = <<0>>

\* C4 (amended): when the root argument is valid Unicode and holds no glob
\* metacharacter, the root is a directory, every glob entry resolves,
\* every *.cedar file is readable and well-formed (schema.cedar present or
\* not) and at least one file not named schema.cedar holds more than white
\* space, the validator exits 0.
C4_WellFormedRootPasses ==
    (/\ Validator
     /\ Done
     /\ RootUsable
     /\ ~GlobFails
     /\ AllFilesWellFormed
     /\ \E i \in 1..Len(files) :
           Aggregable(files[i]) /\ ~AllWhitespace(files[i].content))
        => (exit = <<0>> /\ diag = 0)

C4_Witness ==
    /\ Validator
    /\ exit = <<0>>
    /\ AllFilesWellFormed
    /\ Len(files) = 2
    /\ \E i \in 1..Len(files) : Excluded(files[i])

StageOrder == <<"Read", "Parse", "Serialize", "Emit">>

\* the position in StageOrder of the last stage a converter run enters
C5LastStage ==
    IF ~stdin.ok \/ AllWhitespace(stdin.text) THEN 1
    ELSE IF ~PolicyAccepts(Unpadded(stdin.text)) THEN 2
    ELSE IF ~toJsonOk THEN 3
    ELSE 4

C5ExpectedExit ==
    IF ~stdin.ok THEN 2
    ELSE IF AllWhitespace(stdin.text) THEN 3
    ELSE IF ~PolicyAccepts(Unpadded(stdin.text)) THEN 1
    ELSE IF ~toJsonOk THEN 4
    ELSE IF ~encodeOk THEN 5
    ELSE 0

\* C5: the converter enters its stages in the order Read, Parse, Serialize,
\* Emit, each at most once, and the first failing stage fixes the exit
\* status (read failure 2, empty input 3 without any parse, parse error 1,
\* to_json failure 4, encoder failure 5, else 0); no stage is entered after
\* a stage has failed.
C5_LinearStages ==
    Converter =>
        /\ Len(stages) <= C5LastStage
        /\ stages = SubSeq(StageOrder, 1, Len(stages))
        /\ Done => (exit = <<C5ExpectedExit>> /\ Len(stages) = C5LastStage)
        /\ (~stdin.ok \/ AllWhitespace(stdin.text)) => engineCalls = 0
        /\ Len(stages) >= 2 => policySrc = Unpadded(stdin.text)

C5_Witness ==
    /\ Converter
    /\ exit = <<4>>
    /\ stages = <<"Read", "Parse", "Serialize">>
    /\ engineCalls = 1

IsOneLine(s) ==
    /\ Len(s) >= 2
    /\ s[Len(s)] = "\n"
    /\ \A i \in 1..(Len(s) - 1) : s[i] # "\n"

\* C6: the converter writes no partial output: standard output holds
\* exactly one line iff the run ended with exit 0, and holds nothing in
\* every other state, in particular after every non-zero exit.
C6_NoPartialOutput ==
    Converter =>
        /\ stdout = <<>> \/ IsOneLine(stdout)
        /\ IsOneLine(stdout) <=> exit = <<0>>
        /\ (Done /\ exit # <<0>>) => (stdout = <<>> /\ exit[1] \in 1..5)

C6_Witness ==
    /\ Converter
    /\ exit = <<0>>
    /\ IsOneLine(stdout)
    /\ stages = StageOrder

\* C7: after any number of loop iterations the aggregated buffer is the
\* concatenation, in enumeration order, of the contents of the files not
\* named schema.cedar, each followed by one inserted line terminator
\* exactly when it does not end in one; so the buffer is empty or ends in a
\* line terminator, and every file's contribution ends in one.
C7_BufferIsTerminatedConcatenation ==
    Validator =>
        /\ combined = ExpectedBuffer(SubSeq(files, 1, idx))
        /\ combined = <<>> \/ combined[Len(combined)] = "\n"
        /\ \A i \in 1..idx :
              Aggregable(files[i]) =>
                  LET off == Len(ExpectedBuffer(SubSeq(files, 1, i)))
                      c == files[i].content
                      n == IF Len(c) > 0 /\ c[Len(c)] = "\n"
                           THEN Len(c) ELSE Len(c) + 1
                  IN  /\ off >= n
                      /\ off <= Len(combined)
                      /\ combined[off] = "\n"
                      /\ SubSeq(combined, off - n + 1, off - n + Len(c)) = c

C7_Witness ==
    /\ Validator
    /\ idx = 2
    /\ Len(appended) = 2
    /\ files[1].content # <<>>
    /\ files[1].content[Len(files[1].content)] # "\n"
    /\ files[2].content # <<>>
    /\ files[2].content[1] = "p"

OnlySchemaFile ==
    /\ Len(files) = 1
    /\ Excluded(files[1])

\* C8 as stated: a root directory whose only *.cedar file is schema.cedar
\* makes the validator exit 4 without invoking the policy-set parser.
C8_Original ==
    (Validator /\ Done /\ root.isDir /\ OnlySchemaFile)
        => (exit = <<4>> /\ engineCalls = 0)

\* C8 (amended): a root directory whose path is valid Unicode and holds no
\* glob metacharacter (so that root/*.cedar is a valid pattern) and whose
\* only *.cedar file is schema.cedar makes the validator exit 4, whatever
\* that file holds; the file is not read and the policy-set parser is not
\* invoked.
C8_OnlySchemaIsNoPolicies ==
    (Validator /\ Done /\ RootUsable /\ OnlySchemaFile)
        => (exit = <<4>> /\ engineCalls = 0 /\ readLog = <<>>)

C8_Witness ==
    /\ Validator
    /\ exit = <<4>>
    /\ OnlySchemaFile
    /\ files[1].content = <<"P">>
    /\ idx = 1

C9State ==
    /\ diag <= 1
    /\ engineCalls <= 1
    /\ diag = 1 <=> (Done /\ exit # <<0>>)
    /\ exit = <<0>> => diag = 0
    /\ (Done /\ exit # <<0>>) => stdout = <<>>
    /\ (Validator /\ GlobFails) => engineCalls = 0
    /\ (Validator /\ exit = <<3>>) => files[idx + 1].kind = "err"
    /\ Validator => Len(readLog) <= idx + 1

\* C9: fail fast, in both tools: the first error writes exactly one
\* diagnostic and ends the process in the same step; after it nothing is
\* read, parsed or printed; a glob entry that fails to resolve, at any
\* position, ends the validator run without the policy-set parser being
\* invoked; an engine parser is invoked at most once per run; a run that
\* exits 0 writes nothing to the error stream.
C9_FailFast ==
    /\ []C9State
    /\ [][diag > 0 => UNCHANGED vars]_vars

C9_Witness ==
    /\ Validator
    /\ exit = <<3>>
    /\ diag = 1
    /\ Len(appended) = 1
    /\ engineCalls = 0

\* C10 as stated: every validator run ends with a status in 0..4 and every
\* converter run with a status in 0..5, whatever fails.
C10_Original ==
    Done => exit[1] \in (IF Validator THEN 0..4 ELSE 0..5)

\* C10 (amended): every converter run ends with a status in 0..5.  Every
\* validator run ends with a status in 0..4 except in three cases that are
\* not mapped to a designed status and end the process by a panic (status
\* 101): a root argument that is not valid Unicode, a rejected glob
\* pattern, and a failure to read an enumerated file.  Until the process
\* has ended a next step exists.
C10_ExitTaxonomy ==
    /\ ~Done => ENABLED Next
    /\ (Done /\ Converter) => exit[1] \in 0..5
    /\ (Done /\ Validator) =>
          /\ panicSite = "none" => exit[1] \in 0..4
          /\ panicSite # "none" <=> exit = <<101>>
          /\ panicSite = "args" <=> ~root.utf8
          /\ panicSite = "pattern" => (root.isDir /\ ~root.patternOk)
          /\ panicSite = "read" =>
                (/\ files[idx + 1].kind = "file"
                 /\ ~files[idx + 1].ok
                 /\ files[idx + 1].name # "schema.cedar")
          /\ (root.utf8 /\ root.isDir /\ ~root.patternOk)
                => panicSite = "pattern"

C10_Witness ==
    /\ Validator
    /\ exit = <<101>>
    /\ panicSite = "read"
    /\ Len(appended) = 1

====
